---- MODULE Spec2Model ----
(***************************************************************************)
(* Role-gated routing demo (expo-router Stack.Protected) with its          *)
(* authentication hooks.                                                   *)
(*                                                                         *)
(* Spec     : the persistence-backed (Convex) variant: the users table,    *)
(*            AsyncStorage, one useAuth() state per component that calls   *)
(*            the hook, the login screen, the admin screen and the layout. *)
(* SpecSub  : the subscription variants (Supabase, Firebase): the          *)
(*            provider's session, the role store, the auth-state listener  *)
(*            of the layout's useAuth() and the layout.                    *)
(* SpecTok  : Spec with callers of getTokenIdentifier().                   *)
(* SpecAll  : the three builds side by side, for properties that hold in   *)
(*            each of them.                                                *)
(* SpecTeardown : SpecSub with the unmount of the hook's component.        *)
(* SpecLive : SpecAll where every awaited external call settles.           *)
(* SpecScript : a run of a role promotion script.                          *)
(* SpecBoot : process start with any environment, then the app.            *)
(***************************************************************************)
EXTENDS Integers, Sequences, FiniteSets, TLC

VARIABLES
    \* ---- persistence-backed variant
    db,         \* convex "users" table: sequence of rows, _id = index
    storage,    \* AsyncStorage: function from the keys present to their values
    user,       \* [holder -> AuthUser or Null]: useState of each useAuth() caller
    loading,    \* [holder -> BOOLEAN]
    loadPc,     \* [holder -> "unmounted" | "getItem" | "done"]: loadUser effect
    login,      \* the login screen: handleAuth position, its locals, busy flag
    clearing,   \* admin screen: clearUser calls in flight, per awaited removal
    tokCtr,     \* tokens generated so far by generateTokenIdentifier
    nav,        \* router.replace target requested by the last step, or "none"
    alert,      \* Alert.alert message shown by the last step, or "none"
    logged,     \* console.error written by the last step, or "none"
    lastSet,    \* history: the userData of the latest setUser call whose two
                \* writes both succeeded, Null once storage is written again
    creds,      \* history: the password given to signUp for each row of db
    tokenRead,  \* what the getTokenIdentifier() call of the last step returned,
                \* NoCall when the last step was no such call
    \* ---- subscription variants
    variant,    \* "supabase" | "firebase" | "convex"
    session,    \* the provider's current session: a uid or NoSession
    profiles,   \* role store: [uid -> "none" | "" | "user" | "admin"]
    notified,   \* number of auth-state notifications delivered so far
    handlers,   \* listener invocations awaiting their role lookup
    initPc,     \* supabase initAuth position
    sUser,      \* useState user of the layout's useAuth()
    sLoading,   \* useState loading of the layout's useAuth()
    lastNote,   \* the session value of the latest notification
    applied,    \* history: the listener invocation (or initAuth, seq 0) whose
                \* state update ran last
    cleanSince, \* history: the role store has not changed since notification
                \* number cleanSince was delivered (0: since process start)
    subscribed, \* the listener is registered (effect not cleaned up)
    \* ---- the layout
    exposed,    \* screens the layout's <Stack> currently registers
    \* ---- outside the running app
    boot,       \* evaluation of the backend configuration module at process
                \* start: position, the environment read, constructor called
    script      \* a run of a role promotion script: position, messages, exit

vars == <<db, storage, user, loading, loadPc, login, clearing, tokCtr, nav,
          alert, logged, lastSet, creds, tokenRead, variant, session, profiles,
          notified, handlers,
          initPc, sUser, sLoading, lastNote, applied, cleanSince, subscribed,
          exposed, boot, script>>

convexVars == <<db, storage, user, loading, loadPc, login, clearing, tokCtr,
                nav, alert, logged, lastSet, creds, tokenRead>>

toolVars == <<boot, script>>

subVars == <<session, profiles, notified, handlers, initPc, sUser, sLoading,
             lastNote, applied, cleanSince, subscribed>>

-----------------------------------------------------------------------------
(* Bounds *)

MaxTokens == 2      \* sign-up attempts (token generations) explored
MaxClears == 2      \* overlapping clearUser calls explored
MaxNotes == 2       \* auth-state notifications explored per process

-----------------------------------------------------------------------------
(* Values *)

Null == [null |-> TRUE]

Roles == {"user", "admin"}

Emails == {"e1", "e2"}

Passwords == {"p", "q"}

USER_STORAGE_KEY == "@convex_user"

TOKEN_STORAGE_KEY == "@convex_token"

Holders == {"layout", "login", "admin"}

AuthUser(id, email, role, tok) ==
    [id |-> id, email |-> email, role |-> role, tokenIdentifier |-> tok]

\* mutant of JsonStringify: the values of two members are exchanged
JsonStringifySwapped(u) ==
    <<"id", u.id, "email", u.role, "role", u.email,
      "tokenIdentifier", u.tokenIdentifier>>

\* JSON.stringify of an AuthUser: the members in insertion order, as text
JsonStringify(u) ==
    <<"id", u.id, "email", u.email, "role", u.role,
      "tokenIdentifier", u.tokenIdentifier>>

RECURSIVE JsonMember(_, _, _)
JsonMember(s, key, i) ==
    IF i > Len(s) THEN Null
    ELSE IF s[i] = key THEN [value |-> s[i + 1]]
    ELSE JsonMember(s, key, i + 2)

\* JSON.parse of a stored snapshot: an object with the members found
JsonParse(s) ==
    [id |-> JsonMember(s, "id", 1).value,
     email |-> JsonMember(s, "email", 1).value,
     role |-> JsonMember(s, "role", 1).value,
     tokenIdentifier |-> JsonMember(s, "tokenIdentifier", 1).value]

\* AsyncStorage
HasItem(st, key) == key \in DOMAIN st

SetItem(st, key, value) == (key :> value) @@ st

RemoveItem(st, key) == [k \in DOMAIN st \ {key} |-> st[k]]

-----------------------------------------------------------------------------
(* The layout: Stack.Protected guards *)

AdminGuard(u) == u /= Null /\ u.role = "admin"

\* mutant of UserGuard: the guard of the layout before roles were added
UserGuardAnyRole(u) == u /= Null

UserGuard(u) == u /= Null /\ u.role /= "admin"

\* mutant of AuthGuard: compares with undefined, which user never is
AuthGuardUndefined(u) == FALSE

AuthGuard(u) == u = Null

\* mutant of AppLayout: no early return while loading
AppLayoutNoGate(u, l) ==
    (IF AdminGuard(u) THEN {"(app)/admin"} ELSE {})
    \cup (IF UserGuard(u) THEN {"(app)/index"} ELSE {})
    \cup (IF AuthGuard(u) THEN {"(auth)/index"} ELSE {})
    \cup {"(app)/about"}

AppLayout(u, l) ==
    IF l THEN {"ScreenSuspense"}
    ELSE (IF AdminGuard(u) THEN {"(app)/admin"} ELSE {})
         \cup (IF UserGuard(u) THEN {"(app)/index"} ELSE {})
         \cup (IF AuthGuard(u) THEN {"(auth)/index"} ELSE {})
         \cup {"(app)/about"}

-----------------------------------------------------------------------------
(* Convex backend: mutations on the users table (each runs atomically) *)

ByEmail(d, email) == {i \in DOMAIN d : d[i].email = email}

First(S) == CHOOSE i \in S : \A j \in S : i <= j

\* mutant of signUp: the first account of the table is made administrator
signUpFirstAdmin(d, email, password, tok) ==
    IF ByEmail(d, email) /= {}
    THEN [err |-> "User with this email already exists", db |-> d, value |-> 0]
    ELSE [err |-> "",
          db |-> Append(d, [email |-> email,
                            role |-> IF d = <<>> THEN "admin" ELSE "user",
                            tokenIdentifier |-> tok]),
          value |-> Len(d) + 1]

ByToken(d, tok) == {i \in DOMAIN d : d[i].tokenIdentifier = tok}

\* mutant of signUp: the existing user is looked up in the by_token index
signUpChecksToken(d, email, password, tok) ==
    IF ByToken(d, tok) /= {}
    THEN [err |-> "User with this email already exists", db |-> d, value |-> 0]
    ELSE [err |-> "",
          db |-> Append(d, [email |-> email, role |-> "user",
                            tokenIdentifier |-> tok]),
          value |-> Len(d) + 1]

\* mutant of signUp: no check for an existing user
signUpNoCheck(d, email, password, tok) ==
    [err |-> "",
     db |-> Append(d, [email |-> email, role |-> "user",
                       tokenIdentifier |-> tok]),
     value |-> Len(d) + 1]

\* signUp mutation: [err, db, value]
signUp(d, email, password, tok) ==
    IF ByEmail(d, email) /= {}
    THEN [err |-> "User with this email already exists", db |-> d, value |-> 0]
    ELSE [err |-> "",
          db |-> Append(d, [email |-> email, role |-> "user",
                            tokenIdentifier |-> tok]),
          value |-> Len(d) + 1]

\* signIn mutation: [err, value]; the password is not looked at
signIn(d, email, password) ==
    IF ByEmail(d, email) = {}
    THEN [err |-> "Invalid email or password", value |-> Null]
    ELSE LET i == First(ByEmail(d, email))
         IN [err |-> "",
             value |-> AuthUser(i, d[i].email, d[i].role, d[i].tokenIdentifier)]

\* setUserRole mutation: db.patch(userId, {role})
setUserRole(d, userId, role) == [d EXCEPT ![userId].role = role]

-----------------------------------------------------------------------------
(* Persistence-backed useAuth(): one state per component calling the hook *)

Idle == [pc |-> "idle", email |-> "", password |-> "", isSignUp |-> FALSE,
         tok |-> 0, data |-> Null, busy |-> FALSE]

Render == exposed' = AppLayout(user'["layout"], loading'["layout"])

NoCall == [called |-> FALSE]

\* what the step shows to the outside: navigation, alert, console.error
Emit(n, a, l) == nav' = n /\ alert' = a /\ logged' = l /\ tokenRead' = NoCall

\* the screen of each component that calls the hook besides the layout
ScreenOf(h) == IF h = "login" THEN "(auth)/index" ELSE "(app)/admin"

\* a screen component mounts (the router only shows a screen whose guard
\* holds): useState initial values, the loadUser() effect is started
Mount(h) ==
    /\ variant = "convex"
    /\ h /= "layout"
    /\ loadPc[h] = "unmounted"
    /\ ScreenOf(h) \in exposed
    /\ loadPc' = [loadPc EXCEPT ![h] = "getItem"]
    /\ Emit("none", "none", "none")
    /\ UNCHANGED <<db, storage, user, loading, login, clearing, tokCtr, exposed>>
    /\ UNCHANGED <<toolVars, variant, lastSet, creds, subVars>>

\* mutant of LoadUser: setLoading(false) at the end of the try, no finally
LoadUserNoFinally(h) ==
    /\ variant = "convex"
    /\ loadPc[h] = "getItem"
    /\ \E ok \in BOOLEAN :
          IF ok
          THEN /\ user' = IF HasItem(storage, USER_STORAGE_KEY)
                          THEN [user EXCEPT
                                  ![h] = JsonParse(storage[USER_STORAGE_KEY])]
                          ELSE user
               /\ loading' = [loading EXCEPT ![h] = FALSE]
               /\ Emit("none", "none", "none")
          ELSE /\ user' = user
               /\ loading' = loading
               /\ Emit("none", "none", "Error loading user data:")
    /\ loadPc' = [loadPc EXCEPT ![h] = "done"]
    /\ UNCHANGED <<db, storage, login, clearing, tokCtr>>
    /\ UNCHANGED <<toolVars, variant, lastSet, creds, subVars>>
    /\ Render

\* loadUser(): the awaited AsyncStorage.getItem settles (a rejected read and
\* a snapshot that does not parse both end in the catch)
LoadUser(h) ==
    /\ variant = "convex"
    /\ loadPc[h] = "getItem"
    /\ \E ok \in BOOLEAN :
          IF ok
          THEN /\ user' = IF HasItem(storage, USER_STORAGE_KEY)
                          THEN [user EXCEPT
                                  ![h] = JsonParse(storage[USER_STORAGE_KEY])]
                          ELSE user
               /\ Emit("none", "none", "none")
          ELSE /\ user' = user
               /\ Emit("none", "none", "Error loading user data:")
    /\ loading' = [loading EXCEPT ![h] = FALSE]
    /\ loadPc' = [loadPc EXCEPT ![h] = "done"]
    /\ UNCHANGED <<db, storage, login, clearing, tokCtr>>
    /\ UNCHANGED <<toolVars, variant, lastSet, creds, subVars>>
    /\ Render

\* mutant of HandleAuth: the fields are not validated
HandleAuthNoValidation(email, password, isSignUp) ==
    /\ variant = "convex"
    /\ loadPc["login"] /= "unmounted"
    /\ ~login.busy
    /\ IF isSignUp
       THEN /\ tokCtr < MaxTokens
            /\ tokCtr' = tokCtr + 1
            /\ login' = [pc |-> "signUp", email |-> email,
                         password |-> password, isSignUp |-> TRUE,
                         tok |-> tokCtr + 1, data |-> Null, busy |-> TRUE]
            /\ Emit("none", "none", "none")
       ELSE /\ login' = [pc |-> "signIn", email |-> email,
                         password |-> password, isSignUp |-> FALSE,
                         tok |-> 0, data |-> Null, busy |-> TRUE]
            /\ tokCtr' = tokCtr
            /\ Emit("none", "none", "none")
    /\ UNCHANGED <<db, storage, user, loading, loadPc, clearing, exposed>>
    /\ UNCHANGED <<toolVars, variant, lastSet, creds, subVars>>

\* Login.handleAuth up to its first await
HandleAuth(email, password, isSignUp) ==
    /\ variant = "convex"
    /\ loadPc["login"] /= "unmounted"
    /\ ~login.busy
    /\ IF email = "" \/ password = ""
       THEN /\ Emit("none", "Please fill in all fields", "none")
            /\ UNCHANGED <<login, tokCtr>>
       ELSE IF isSignUp
       THEN /\ tokCtr < MaxTokens
            /\ tokCtr' = tokCtr + 1
            /\ login' = [pc |-> "signUp", email |-> email,
                         password |-> password, isSignUp |-> TRUE,
                         tok |-> tokCtr + 1, data |-> Null, busy |-> TRUE]
            /\ Emit("none", "none", "none")
       ELSE /\ login' = [pc |-> "signIn", email |-> email,
                         password |-> password, isSignUp |-> FALSE,
                         tok |-> 0, data |-> Null, busy |-> TRUE]
            /\ tokCtr' = tokCtr
            /\ Emit("none", "none", "none")
    /\ UNCHANGED <<db, storage, user, loading, loadPc, clearing, exposed>>
    /\ UNCHANGED <<toolVars, variant, lastSet, creds, subVars>>

\* await signUp(...) settles: the mutation ran, or the call was rejected
SignUpReply ==
    /\ login.pc = "signUp"
    /\ \E net \in BOOLEAN :
          LET r == signUp(db, login.email, login.password, login.tok)
          IN IF net /\ r.err = ""
             THEN /\ db' = r.db
                  /\ creds' = Append(creds, login.password)
                  /\ login' = [login EXCEPT
                       !.pc = "w1",
                       !.data = AuthUser(r.value, login.email, "user", login.tok)]
                  /\ Emit("none", "none", "none")
             ELSE /\ db' = db
                  /\ creds' = creds
                  /\ Emit("none", IF net THEN r.err ELSE "Authentication failed",
                          "none")
                  /\ login' = Idle
    /\ UNCHANGED <<storage, user, loading, loadPc, clearing, tokCtr, exposed>>
    /\ UNCHANGED <<toolVars, variant, lastSet, subVars>>

\* mutant of SignInReply: a rejected sign-in also wipes the stored session
SignInReplyResets ==
    /\ login.pc = "signIn"
    /\ \E net \in BOOLEAN :
          LET r == signIn(db, login.email, login.password)
          IN IF net /\ r.err = ""
             THEN /\ login' = [login EXCEPT
                       !.pc = "w1",
                       !.data = AuthUser(r.value.id, r.value.email,
                                         r.value.role, r.value.tokenIdentifier)]
                  /\ storage' = storage
                  /\ Emit("none", "none", "none")
             ELSE /\ Emit("none", IF net THEN r.err ELSE "Authentication failed",
                          "none")
                  /\ storage' = RemoveItem(RemoveItem(storage, USER_STORAGE_KEY),
                                           TOKEN_STORAGE_KEY)
                  /\ login' = Idle
    /\ UNCHANGED <<db, user, loading, loadPc, clearing, tokCtr, exposed>>
    /\ UNCHANGED <<toolVars, variant, lastSet, creds, subVars>>

\* await signIn(...) settles
SignInReply ==
    /\ login.pc = "signIn"
    /\ \E net \in BOOLEAN :
          LET r == signIn(db, login.email, login.password)
          IN IF net /\ r.err = ""
             THEN /\ login' = [login EXCEPT
                       !.pc = "w1",
                       !.data = AuthUser(r.value.id, r.value.email,
                                         r.value.role, r.value.tokenIdentifier)]
                  /\ Emit("none", "none", "none")
             ELSE /\ Emit("none", IF net THEN r.err ELSE "Authentication failed",
                          "none")
                  /\ login' = Idle
    /\ UNCHANGED <<db, storage, user, loading, loadPc, clearing, tokCtr, exposed>>
    /\ UNCHANGED <<toolVars, variant, lastSet, creds, subVars>>

\* setUser(userData): AsyncStorage.setItem(USER_STORAGE_KEY, ...) settles.
\* On rejection the catch logs, setUser returns, handleAuth goes on to
\* router.replace("/(app)") and its finally.
SetUserStep1 ==
    /\ login.pc = "w1"
    /\ \E ok \in BOOLEAN :
          IF ok
          THEN /\ storage' = SetItem(storage, USER_STORAGE_KEY,
                                     JsonStringify(login.data))
               /\ login' = [login EXCEPT !.pc = "w2"]
               /\ lastSet' = Null
               /\ Emit("none", "none", "none")
          ELSE /\ Emit("/(app)", "none", "Error saving user data:")
               /\ login' = Idle
               /\ UNCHANGED <<storage, lastSet>>
    /\ UNCHANGED <<db, user, loading, loadPc, clearing, tokCtr, exposed>>
    /\ UNCHANGED <<toolVars, variant, creds, subVars>>

\* setUser(userData): AsyncStorage.setItem(TOKEN_STORAGE_KEY, ...) settles,
\* then setUserState(userData); back in handleAuth: router.replace, finally
SetUserStep2 ==
    /\ login.pc = "w2"
    /\ \E ok \in BOOLEAN :
          IF ok
          THEN /\ storage' = SetItem(storage, TOKEN_STORAGE_KEY,
                                     login.data.tokenIdentifier)
               /\ user' = [user EXCEPT !["login"] = login.data]
               /\ lastSet' = login.data
               /\ Emit("/(app)", "none", "none")
          ELSE /\ Emit("/(app)", "none", "Error saving user data:")
               /\ UNCHANGED <<storage, user, lastSet>>
    /\ login' = Idle
    /\ UNCHANGED <<db, loading, loadPc, clearing, tokCtr>>
    /\ UNCHANGED <<toolVars, variant, creds, subVars>>
    /\ Render

\* AdminHome.handleSignOut: clearUser() is called
HandleSignOut ==
    /\ variant = "convex"
    /\ loadPc["admin"] /= "unmounted"
    /\ clearing.r1 + clearing.r2 < MaxClears
    /\ clearing' = [clearing EXCEPT !.r1 = @ + 1]
    /\ Emit("none", "none", "none")
    /\ UNCHANGED <<db, storage, user, loading, loadPc, login, tokCtr, exposed>>
    /\ UNCHANGED <<toolVars, variant, lastSet, creds, subVars>>

\* clearUser(): AsyncStorage.removeItem(USER_STORAGE_KEY) settles. On
\* rejection the catch logs, clearUser returns, router.replace("/(auth)").
ClearUserStep1 ==
    /\ clearing.r1 > 0
    /\ \E ok \in BOOLEAN :
          IF ok
          THEN /\ storage' = RemoveItem(storage, USER_STORAGE_KEY)
               /\ clearing' = [r1 |-> clearing.r1 - 1, r2 |-> clearing.r2 + 1]
               /\ lastSet' = Null
               /\ Emit("none", "none", "none")
          ELSE /\ Emit("/(auth)", "none", "Error clearing user data:")
               /\ clearing' = [clearing EXCEPT !.r1 = @ - 1]
               /\ UNCHANGED <<storage, lastSet>>
    /\ UNCHANGED <<db, user, loading, loadPc, login, tokCtr, exposed>>
    /\ UNCHANGED <<toolVars, variant, creds, subVars>>

\* clearUser(): AsyncStorage.removeItem(TOKEN_STORAGE_KEY) settles, then
\* setUserState(null); back in handleSignOut: router.replace("/(auth)")
ClearUserStep2 ==
    /\ clearing.r2 > 0
    /\ \E ok \in BOOLEAN :
          IF ok
          THEN /\ storage' = RemoveItem(storage, TOKEN_STORAGE_KEY)
               /\ user' = [user EXCEPT !["admin"] = Null]
               /\ lastSet' = Null
               /\ Emit("/(auth)", "none", "none")
          ELSE /\ Emit("/(auth)", "none", "Error clearing user data:")
               /\ UNCHANGED <<storage, user, lastSet>>
    /\ clearing' = [clearing EXCEPT !.r2 = @ - 1]
    /\ UNCHANGED <<db, loading, loadPc, login, tokCtr>>
    /\ UNCHANGED <<toolVars, variant, creds, subVars>>
    /\ Render

\* getTokenIdentifier() given whether the awaited getItem resolves: the token
\* stored, or null (nothing stored, or the read rejected and was caught)
getTokenIdentifier(st, ok) ==
    IF ok /\ HasItem(st, TOKEN_STORAGE_KEY)
    THEN [token |-> st[TOKEN_STORAGE_KEY]]
    ELSE Null

\* a caller of the hook awaits getTokenIdentifier()
GetTokenIdentifier ==
    /\ variant = "convex"
    /\ \E ok \in BOOLEAN :
          /\ tokenRead' = [called |-> TRUE,
                           value |-> getTokenIdentifier(storage, ok)]
          /\ logged' = IF ok THEN "none" ELSE "Error getting token:"
    /\ nav' = "none"
    /\ alert' = "none"
    /\ UNCHANGED <<db, storage, user, loading, loadPc, login, clearing, tokCtr,
                   exposed>>
    /\ UNCHANGED <<toolVars, variant, lastSet, creds, subVars>>

\* an administrator runs the setUserRole mutation
SetUserRole(userId, role) ==
    /\ variant = "convex"
    /\ userId \in DOMAIN db
    /\ db[userId].role /= role
    /\ db' = setUserRole(db, userId, role)
    /\ Emit("none", "none", "none")
    /\ UNCHANGED <<storage, user, loading, loadPc, login, clearing, tokCtr,
                   exposed>>
    /\ UNCHANGED <<toolVars, variant, lastSet, creds, subVars>>

LoadPc0 == [h \in Holders |-> IF h = "layout" THEN "getItem" ELSE "unmounted"]

Clearing0 == [r1 |-> 0, r2 |-> 0]

\* the state of a freshly started process
Memory0 ==
    /\ user = [h \in Holders |-> Null]
    /\ loading = [h \in Holders |-> TRUE]
    /\ loadPc = LoadPc0
    /\ login = Idle
    /\ clearing = Clearing0
    /\ nav = "none"
    /\ alert = "none"
    /\ logged = "none"
    /\ tokenRead = NoCall
    /\ exposed = AppLayout(Null, TRUE)

\* the app process is killed and started again: memory is lost, the table
\* and AsyncStorage are kept
Restart ==
    /\ variant = "convex"
    /\ ~Memory0
    /\ user' = [h \in Holders |-> Null]
    /\ loading' = [h \in Holders |-> TRUE]
    /\ loadPc' = LoadPc0
    /\ login' = Idle
    /\ clearing' = Clearing0
    /\ Emit("none", "none", "none")
    /\ exposed' = AppLayout(Null, TRUE)
    /\ UNCHANGED <<db, storage, tokCtr>>
    /\ UNCHANGED <<toolVars, variant, lastSet, creds, subVars>>

-----------------------------------------------------------------------------
(* Subscription variants: Supabase and Firebase useAuth() *)

NoSession == "none"

Uids == {"u1", "u2"}

EmailOf(uid) == IF uid = "u1" THEN "e1" ELSE "e2"

Failures == {"notfound", "error", "throw"}

\* mutant of RoleStoreRead: the role recorded at sign-up is answered
RoleStoreReadAtSignUp(p, uid) == IF p[uid] = "none" THEN "notfound" ELSE "user"

\* what the role store answers for uid: its role field, or that there is no row
RoleStoreRead(p, uid) == IF p[uid] = "none" THEN "notfound" ELSE p[uid]

\* mutant of getUserRole: a user without a profile record is let in as admin
getUserRoleNoRecordAdmin(reply) ==
    IF reply = "throw" THEN "user"
    ELSE IF reply = "error" THEN "user"
    ELSE IF reply = "notfound" THEN "admin"
    ELSE IF reply = "" THEN "user"
    ELSE reply

\* mutant of getUserRole: no default, the role is left empty
getUserRoleNoDefault(reply) ==
    IF reply \in {"throw", "error", "notfound"} THEN "" ELSE reply

\* mutant of getUserRole: the catch branch fails open
getUserRoleFailOpen(reply) ==
    IF reply = "throw" THEN "admin"
    ELSE IF reply \in {"error", "notfound"} THEN "user"
    ELSE IF reply = "" THEN "user"
    ELSE reply

\* getUserRole(userId) given the settled read: a thrown exception, an error
\* result / missing document, or the data read
getUserRole(reply) ==
    IF reply = "throw" THEN "user"
    ELSE IF reply \in {"error", "notfound"} THEN "user"
    ELSE IF reply = "" THEN "user"
    ELSE reply

fetchUserWithRole(uid, reply) ==
    [id |-> uid, email |-> EmailOf(uid), role |-> getUserRole(reply)]

\* mutant of UserAfterLookup: the looked-up role is merged into the user held
UserAfterLookupMerged(h) ==
    IF sUser = Null THEN fetchUserWithRole(h.uid, h.reply)
    ELSE [sUser EXCEPT !.role = getUserRole(h.reply)]

\* mutant of UserAfterLookup: a sequence check discards a stale result
UserAfterLookupLatest(h) ==
    IF h.seq = notified THEN fetchUserWithRole(h.uid, h.reply) ELSE sUser

\* the state update of a listener invocation (or of initAuth, seq 0) whose
\* role lookup has settled: setUser(userWithRole), whatever was delivered since
UserAfterLookup(h) == fetchUserWithRole(h.uid, h.reply)

\* history: the state update of notification seq for session value sess
\* follows the one of the notification delivered right before it, which
\* carried the same session value, and the role store did not change since
\* that one was delivered
IsRepeat(seq, sess) ==
    /\ applied /= Null
    /\ applied.seq >= 1
    /\ seq = applied.seq + 1
    /\ sess = applied.sess
    /\ cleanSince <= applied.seq

Applied(seq, sess, reply) ==
    [seq |-> seq, sess |-> sess, reply |-> reply, dup |-> IsRepeat(seq, sess),
     unsub |-> ~subscribed]

\* the layout renders as long as it is mounted
RenderSub ==
    exposed' = IF subscribed' THEN AppLayout(sUser', sLoading') ELSE {}

\* mutant of Notify: the handler raises the loading flag while it looks up
NotifyReloading(s) ==
    /\ notified' = notified + 1
    /\ lastNote' = s
    /\ IF s /= NoSession
       THEN /\ handlers' = handlers \cup
                 {[seq |-> notified + 1, uid |-> s, reply |-> "pending"]}
            /\ sLoading' = TRUE
            /\ UNCHANGED <<sUser, applied>>
       ELSE /\ sUser' = Null
            /\ sLoading' = IF variant = "firebase" THEN FALSE ELSE sLoading
            /\ applied' = Applied(notified + 1, NoSession, "none")
            /\ handlers' = handlers

\* the auth-state listener is called with session value s
Notify(s) ==
    /\ notified' = notified + 1
    /\ lastNote' = s
    /\ IF s /= NoSession
       THEN /\ handlers' = handlers \cup
                 {[seq |-> notified + 1, uid |-> s, reply |-> "pending"]}
            /\ UNCHANGED <<sUser, sLoading, applied>>
       ELSE /\ sUser' = Null
            /\ sLoading' = IF variant = "firebase" THEN FALSE ELSE sLoading
            /\ applied' = Applied(notified + 1, NoSession, "none")
            /\ handlers' = handlers

\* the first notification after subscribing carries the current session
InitialNote ==
    /\ variant \in {"supabase", "firebase"}
    /\ subscribed
    /\ notified = 0
    /\ Notify(session)
    /\ UNCHANGED <<session, profiles, initPc, cleanSince, subscribed>>
    /\ UNCHANGED <<toolVars, variant, convexVars>>
    /\ RenderSub

\* the login screen signs in or signs up successfully: the provider starts a
\* session for uid, replacing the one it may still hold (the login screen is
\* shown whenever the layout's user is null, whatever the provider holds)
ProviderSignIn(uid) ==
    /\ variant \in {"supabase", "firebase"}
    /\ session /= uid
    /\ "(auth)/index" \in exposed
    /\ session' = uid
    /\ IF subscribed
       THEN notified \in 1..(MaxNotes - 1) /\ Notify(uid)
       ELSE UNCHANGED <<notified, lastNote, handlers, sUser, sLoading, applied>>
    /\ UNCHANGED <<profiles, initPc, cleanSince, subscribed>>
    /\ UNCHANGED <<toolVars, variant, convexVars>>
    /\ RenderSub

\* the provider ends the session (signOut, expiry)
ProviderSignOut ==
    /\ variant \in {"supabase", "firebase"}
    /\ session /= NoSession
    /\ session' = NoSession
    /\ IF subscribed
       THEN notified \in 1..(MaxNotes - 1) /\ Notify(NoSession)
       ELSE UNCHANGED <<notified, lastNote, handlers, sUser, sLoading, applied>>
    /\ UNCHANGED <<profiles, initPc, cleanSince, subscribed>>
    /\ UNCHANGED <<toolVars, variant, convexVars>>
    /\ RenderSub

\* the provider reports the unchanged session again (token refresh, repeat)
ProviderRepeat ==
    /\ variant \in {"supabase", "firebase"}
    /\ subscribed
    /\ notified \in 1..(MaxNotes - 1)
    /\ Notify(session)
    /\ UNCHANGED <<session, profiles, initPc, cleanSince, subscribed>>
    /\ UNCHANGED <<toolVars, variant, convexVars>>
    /\ RenderSub

\* the role store serves (or fails) the read of a pending lookup
RoleStoreReply(h) ==
    /\ h \in handlers
    /\ h.reply = "pending"
    /\ \E r \in {RoleStoreRead(profiles, h.uid), "error", "throw"} :
          handlers' = (handlers \ {h}) \cup {[h EXCEPT !.reply = r]}
    /\ UNCHANGED <<session, profiles, notified, initPc, sUser, sLoading,
                   lastNote, applied, cleanSince, subscribed, exposed>>
    /\ UNCHANGED <<toolVars, variant, convexVars>>

\* mutant of LookupDone: setLoading(false) is missing after the lookup
LookupDoneKeepsLoading(h) ==
    /\ h \in handlers
    /\ h.reply /= "pending"
    /\ sUser' = UserAfterLookup(h)
    /\ sLoading' = sLoading
    /\ initPc' = IF h.seq = 0 THEN "done" ELSE initPc
    /\ handlers' = handlers \ {h}
    /\ applied' = Applied(h.seq, h.uid, h.reply)
    /\ UNCHANGED <<session, profiles, notified, lastNote, cleanSince,
                   subscribed>>
    /\ UNCHANGED <<toolVars, variant, convexVars>>
    /\ RenderSub

\* await getUserRole(...) resumes: setUser(...); Firebase: setLoading(false);
\* initAuth (seq 0): finally setLoading(false)
LookupDone(h) ==
    /\ h \in handlers
    /\ h.reply /= "pending"
    /\ sUser' = UserAfterLookup(h)
    /\ sLoading' = IF variant = "firebase" \/ h.seq = 0 THEN FALSE ELSE sLoading
    /\ initPc' = IF h.seq = 0 THEN "done" ELSE initPc
    /\ handlers' = handlers \ {h}
    /\ applied' = Applied(h.seq, h.uid, h.reply)
    /\ UNCHANGED <<session, profiles, notified, lastNote, cleanSince,
                   subscribed>>
    /\ UNCHANGED <<toolVars, variant, convexVars>>
    /\ RenderSub

\* Supabase initAuth: await supabase.auth.getSession() settles
GetSession ==
    /\ variant = "supabase"
    /\ initPc = "getSession"
    /\ \E ok \in BOOLEAN :
          IF ok /\ session /= NoSession
          THEN /\ handlers' = handlers \cup
                    {[seq |-> 0, uid |-> session, reply |-> "pending"]}
               /\ initPc' = "lookup"
               /\ UNCHANGED <<sUser, sLoading, applied, logged>>
          ELSE /\ sUser' = Null
               /\ sLoading' = FALSE
               /\ initPc' = "done"
               /\ applied' = Applied(0, NoSession, "none")
               /\ logged' = IF ok THEN "none" ELSE "Error fetching session:"
               /\ handlers' = handlers
    /\ UNCHANGED <<session, profiles, notified, lastNote, cleanSince,
                   subscribed>>
    /\ UNCHANGED <<toolVars, variant, db, storage, user, loading, loadPc, login,
                   clearing, tokCtr, nav, alert, lastSet, creds, tokenRead>>
    /\ RenderSub

\* mutant of Teardown: the cleanup also drops the lookups in flight
TeardownCancelling ==
    /\ variant \in {"supabase", "firebase"}
    /\ subscribed
    /\ subscribed' = FALSE
    /\ handlers' = {}
    /\ exposed' = {}
    /\ UNCHANGED <<session, profiles, notified, initPc, sUser, sLoading,
                   lastNote, applied, cleanSince>>
    /\ UNCHANGED <<toolVars, variant, convexVars>>

\* the component calling useAuth() unmounts: the effect cleanup unsubscribes
\* the listener; nothing else is touched
Teardown ==
    /\ variant \in {"supabase", "firebase"}
    /\ subscribed
    /\ subscribed' = FALSE
    /\ exposed' = {}
    /\ UNCHANGED <<session, profiles, notified, handlers, initPc, sUser,
                   sLoading, lastNote, applied, cleanSince>>
    /\ UNCHANGED <<toolVars, variant, convexVars>>

\* createUserProfile(uid, email, "user") after a sign-up
CreateUserProfile(uid) ==
    /\ variant \in {"supabase", "firebase"}
    /\ profiles[uid] = "none"
    /\ profiles' = [profiles EXCEPT ![uid] = "user"]
    /\ cleanSince' = notified + 1
    /\ UNCHANGED <<session, notified, handlers, initPc, sUser, sLoading,
                   lastNote, applied, subscribed, exposed>>
    /\ UNCHANGED <<toolVars, variant, convexVars>>

\* setUserRole(uid, role): update of an existing profile
SetProfileRole(uid, role) ==
    /\ variant \in {"supabase", "firebase"}
    /\ profiles[uid] \notin {"none", role}
    /\ profiles' = [profiles EXCEPT ![uid] = role]
    /\ cleanSince' = notified + 1
    /\ UNCHANGED <<session, notified, handlers, initPc, sUser, sLoading,
                   lastNote, applied, subscribed, exposed>>
    /\ UNCHANGED <<toolVars, variant, convexVars>>

-----------------------------------------------------------------------------
(* The role promotion scripts (Supabase) *)

\* the USER_ID constant as shipped, before it is edited
Placeholder == "USER_ID_HERE"

Targets == Uids \cup {Placeholder}

NoScript == [kind |-> "none", pc |-> "exited", target |-> Placeholder,
             env |-> TRUE, out |-> "none", exit |-> 0,
             fetch |-> "none", update |-> "none"]

\* the outcome of a run: last message class, exit status, end of the run
ScriptExit(out, exit) ==
    [script EXCEPT !.pc = "exited", !.out = out, !.exit = exit]

\* the row of the profiles table matched by .eq("id", userId)
HasProfile(p, userId) == userId \in Uids /\ p[userId] /= "none"

\* profiles.update({role}).eq("id", userId): the rows matched are updated
UpdateRole(p, userId, role) ==
    IF HasProfile(p, userId) THEN [p EXCEPT ![userId] = role] ELSE p

\* setUserRole(userId, role) of the Supabase utilities, given the settled
\* update ("ok", an error result, a thrown exception): the boolean returned
\* (it never throws)
supabaseSetUserRole(reply) == reply = "ok"

\* setAdminRole.ts: the checks at module level before the client is created
ScriptStart ==
    /\ script.kind = "setAdminRole"
    /\ script.pc = "start"
    /\ script' = IF ~script.env THEN ScriptExit("error", 1)
                 ELSE IF script.target = Placeholder THEN ScriptExit("error", 1)
                 ELSE [script EXCEPT !.pc = "fetch"]
    /\ UNCHANGED <<boot, variant, convexVars, subVars, exposed>>

\* setAdminRole.ts: the awaited select(...).single() settles; every branch
\* that reports an error returns from setAdminRole, the process then ends
\* normally
ScriptFetch ==
    /\ script.kind = "setAdminRole"
    /\ script.pc = "fetch"
    /\ \E r \in {"data", "error", "throw"} :
          script' =
             IF r /= "data" \/ ~HasProfile(profiles, script.target)
             THEN [ScriptExit("error", 0) EXCEPT !.fetch = "failed"]
             ELSE IF profiles[script.target] = "admin"
             THEN [ScriptExit("already", 0) EXCEPT !.fetch = "ok"]
             ELSE [script EXCEPT !.pc = "update", !.fetch = "ok"]
    /\ UNCHANGED <<boot, variant, convexVars, subVars, exposed>>

\* setAdminRole.ts: the awaited update(...) settles
ScriptUpdate ==
    /\ script.kind = "setAdminRole"
    /\ script.pc = "update"
    /\ \E r \in {"ok", "error", "throw"} :
          IF r = "ok"
          THEN /\ profiles' = UpdateRole(profiles, script.target, "admin")
               /\ script' = [ScriptExit("success", 0) EXCEPT !.update = "ok"]
          ELSE /\ profiles' = profiles
               /\ script' = [ScriptExit("error", 0) EXCEPT !.update = "failed"]
    /\ UNCHANGED <<session, notified, handlers, initPc, sUser, sLoading,
                   lastNote, applied, cleanSince, subscribed>>
    /\ UNCHANGED <<boot, variant, convexVars, exposed>>

\* promoteToAdmin(): await setUserRole(USER_ID, "admin") settles; the value
\* returned is not looked at, the catch is reached only by an exception
PromoteToAdmin ==
    /\ script.kind = "promoteToAdmin"
    /\ script.pc = "start"
    /\ \E r \in {"ok", "error", "throw"} :
          /\ profiles' = IF r = "ok"
                         THEN UpdateRole(profiles, script.target, "admin")
                         ELSE profiles
          /\ script' = [ScriptExit("success", 0) EXCEPT
                          !.update = IF supabaseSetUserRole(r)
                                     THEN "ok" ELSE "failed"]
    /\ UNCHANGED <<session, notified, handlers, initPc, sUser, sLoading,
                   lastNote, applied, cleanSince, subscribed>>
    /\ UNCHANGED <<boot, variant, convexVars, exposed>>

-----------------------------------------------------------------------------
(* Backend configuration modules, evaluated once at process start *)

Booted == [pc |-> "ready", url |-> TRUE, key |-> TRUE, called |-> TRUE]

\* the environment values the variant's configuration module reads
Required(v) == IF v = "convex" THEN {"url"} ELSE {"url", "key"}

EnvComplete(v, b) == \A k \in Required(v) : b[k]

\* config/convex.ts throws before new ConvexReactClient(...) when the URL is
\* missing. The Supabase and Firebase modules make no check: createClient /
\* initializeApp + initializeAuth are called with whatever was read, and
\* whether they throw on a missing value is up to the library.
Boot ==
    /\ boot.pc = "start"
    /\ IF variant = "convex"
       THEN boot' = IF boot.url
                    THEN [boot EXCEPT !.pc = "ready", !.called = TRUE]
                    ELSE [boot EXCEPT !.pc = "halted"]
       ELSE \E threw \in BOOLEAN :
               /\ threw => ~EnvComplete(variant, boot)
               /\ boot' = [boot EXCEPT !.pc = IF threw THEN "halted" ELSE "ready",
                                       !.called = TRUE]
    /\ UNCHANGED <<script, variant, convexVars, subVars, exposed>>

ToolsIdle ==
    /\ boot = Booted
    /\ script = NoScript

-----------------------------------------------------------------------------
(* Initial states and specifications *)

SubIdle ==
    /\ session = NoSession
    /\ profiles = [u \in Uids |-> "none"]
    /\ notified = 0
    /\ handlers = {}
    /\ initPc = "none"
    /\ sUser = Null
    /\ sLoading = TRUE
    /\ lastNote = NoSession
    /\ applied = Null
    /\ cleanSince = 0
    /\ subscribed = FALSE

Init ==
    /\ variant = "convex"
    /\ db = <<>>
    /\ storage = <<>>
    /\ tokCtr = 0
    /\ lastSet = Null
    /\ creds = <<>>
    /\ Memory0
    /\ SubIdle
    /\ ToolsIdle

Next ==
    \/ \E h \in Holders : Mount(h)
    \/ \E h \in Holders : LoadUser(h)
    \/ \E e \in Emails \cup {""}, p \in Passwords \cup {""}, m \in BOOLEAN :
          HandleAuth(e, p, m)
    \/ SignUpReply
    \/ SignInReply
    \/ SetUserStep1
    \/ SetUserStep2
    \/ HandleSignOut
    \/ ClearUserStep1
    \/ ClearUserStep2
    \/ \E i \in 1..Cardinality(Emails), r \in Roles : SetUserRole(i, r)
    \/ Restart

Spec == Init /\ [][Next]_vars

\* the persistence-backed build with callers of getTokenIdentifier()
NextTok ==
    \/ Next
    \/ GetTokenIdentifier

SpecTok == Init /\ [][NextTok]_vars

\* a process start of a subscription variant: the provider may hold a
\* session kept from an earlier run, the role store any content
InitSub ==
    /\ variant \in {"supabase", "firebase"}
    /\ session \in Uids \cup {NoSession}
    /\ profiles \in [Uids -> {"none", "", "user", "admin"}]
    /\ notified = 0
    /\ handlers = {}
    /\ initPc = IF variant = "supabase" THEN "getSession" ELSE "none"
    /\ sUser = Null
    /\ sLoading = TRUE
    /\ lastNote = NoSession
    /\ applied = Null
    /\ cleanSince = 0
    /\ subscribed = TRUE
    /\ db = <<>>
    /\ storage = <<>>
    /\ tokCtr = 0
    /\ lastSet = Null
    /\ creds = <<>>
    /\ Memory0
    /\ ToolsIdle

NextSub ==
    \/ InitialNote
    \/ \E u \in Uids : ProviderSignIn(u)
    \/ ProviderSignOut
    \/ ProviderRepeat
    \/ \E h \in handlers : RoleStoreReply(h)
    \/ \E h \in handlers : LookupDone(h)
    \/ GetSession
    \/ \E u \in Uids : CreateUserProfile(u)
    \/ \E u \in Uids, r \in Roles : SetProfileRole(u, r)

SpecSub == InitSub /\ [][NextSub]_vars

\* every awaited external call eventually settles: the storage read of the
\* layout's loadUser, the session query, the first auth-state notification,
\* the role store read and the resumption of the handler awaiting it
Settles ==
    /\ WF_vars(LoadUser("layout"))
    /\ WF_vars(GetSession)
    /\ WF_vars(InitialNote)
    /\ WF_vars(\E h \in handlers : RoleStoreReply(h))
    /\ WF_vars(\E h \in handlers : LookupDone(h))

\* the subscription builds with the unmount of the hook's component
NextTeardown ==
    \/ NextSub
    \/ Teardown

\* process start with one administrator profile in the role store
InitTeardown ==
    /\ InitSub
    /\ profiles = [u \in Uids |-> IF u = "u1" THEN "admin" ELSE "none"]

SpecTeardown == InitTeardown /\ [][NextTeardown]_vars

\* the three builds side by side
SpecAll == (Init \/ InitSub) /\ [][Next \/ NextSub]_vars

\* the three builds where every awaited external call settles
SpecLive == SpecAll /\ Settles

\* a run of one of the promotion scripts against any role store content
InitScript ==
    /\ variant = "supabase"
    /\ script \in [kind : {"promoteToAdmin", "setAdminRole"}, pc : {"start"},
                   target : Targets, env : BOOLEAN, out : {"none"},
                   exit : {0}, fetch : {"none"}, update : {"none"}]
    /\ script.kind = "promoteToAdmin" => script.env
    /\ boot = Booted
    /\ profiles \in [Uids -> {"none", "", "user", "admin"}]
    /\ session = NoSession
    /\ notified = 0
    /\ handlers = {}
    /\ initPc = "none"
    /\ sUser = Null
    /\ sLoading = TRUE
    /\ lastNote = NoSession
    /\ applied = Null
    /\ cleanSince = 0
    /\ subscribed = FALSE
    /\ db = <<>>
    /\ storage = <<>>
    /\ tokCtr = 0
    /\ lastSet = Null
    /\ creds = <<>>
    /\ Memory0

NextScript ==
    \/ ScriptStart
    \/ ScriptFetch
    \/ ScriptUpdate
    \/ PromoteToAdmin

SpecScript == InitScript /\ [][NextScript]_vars

\* process start of any build with any environment: the configuration
\* module is evaluated first, the app runs once it has been evaluated
InitBoot ==
    /\ variant \in {"convex", "supabase", "firebase"}
    /\ boot \in [pc : {"start"}, url : BOOLEAN, key : BOOLEAN, called : {FALSE}]
    /\ script = NoScript
    /\ IF variant = "convex"
       THEN SubIdle
       ELSE /\ session \in Uids \cup {NoSession}
            /\ profiles = [u \in Uids |-> "user"]
            /\ notified = 0
            /\ handlers = {}
            /\ initPc = IF variant = "supabase" THEN "getSession" ELSE "none"
            /\ sUser = Null
            /\ sLoading = TRUE
            /\ lastNote = NoSession
            /\ applied = Null
            /\ cleanSince = 0
            /\ subscribed = TRUE
    /\ db = <<>>
    /\ storage = <<>>
    /\ tokCtr = 0
    /\ lastSet = Null
    /\ creds = <<>>
    /\ Memory0

NextBoot ==
    \/ Boot
    \/ boot.pc = "ready" /\ Next
    \/ boot.pc = "ready" /\ NextSub

SpecBoot == InitBoot /\ [][NextBoot]_vars

-----------------------------------------------------------------------------
(* Properties *)

Guarded == {"(app)/admin", "(app)/index", "(auth)/index"}

\* C1: guard exclusivity. Whenever the layout's loading flag is false, exactly
\* one of the admin, user and auth screens is registered, and the About
\* screen is registered too.
C1_GuardExclusivity ==
    ~loading["layout"] =>
        /\ Cardinality(exposed \cap Guarded) = 1
        /\ "(app)/about" \in exposed

C1_Witness ==
    /\ ~loading["layout"]
    /\ user["layout"] /= Null
    /\ user["layout"].role = "admin"
    /\ exposed = {"(app)/admin", "(app)/about"}

\* C2: guard mapping. Once loading is false, the admin screen is registered
\* iff user is present with role "admin", the user screen iff user is present
\* with another role, the auth screen iff user is absent: a function of the
\* current user alone, whatever was navigated to before.
C2_GuardMapping ==
    ~loading["layout"] =>
        LET u == user["layout"]
        IN /\ ("(app)/admin" \in exposed) <=> (u /= Null /\ u.role = "admin")
           /\ ("(app)/index" \in exposed) <=> (u /= Null /\ u.role /= "admin")
           /\ ("(auth)/index" \in exposed) <=> (u = Null)

C2_Witness ==
    /\ ~loading["layout"]
    /\ user["layout"] /= Null
    /\ user["layout"].role = "user"
    /\ "(app)/index" \in exposed
    /\ db[user["layout"].id].role = "admin"

\* C3: loading gate. While the layout's loading flag is true only the loading
\* indicator is registered, whatever user will be restored.
C3_LoadingGate ==
    loading["layout"] => exposed = {"ScreenSuspense"}

C3_Witness ==
    /\ loading["layout"]
    /\ HasItem(storage, USER_STORAGE_KEY)
    /\ JsonParse(storage[USER_STORAGE_KEY]).role = "admin"
    /\ exposed = {"ScreenSuspense"}

\* a clearUser() call of the admin screen returns in this step
ClearUserReturns ==
    /\ clearing'.r1 + clearing'.r2 < clearing.r1 + clearing.r2
    /\ loadPc'["admin"] /= "unmounted"

\* a setUser() call of the login screen returns in this step
SetUserReturns ==
    /\ login.pc \in {"w1", "w2"}
    /\ login'.pc = "idle"
    /\ loadPc'["login"] /= "unmounted"

\* C4: sign-out postcondition. Whenever a clearUser() call has returned, also
\* one in which a removal failed, the caller's user is absent and storage holds
\* neither the user snapshot key nor the token key.
C4_SignOutPostcondition ==
    [][ClearUserReturns =>
          /\ user'["admin"] = Null
          /\ ~HasItem(storage', USER_STORAGE_KEY)
          /\ ~HasItem(storage', TOKEN_STORAGE_KEY)]_vars

\* C5: session-change handlers are not sequenced. Every role lookup that
\* settles is applied to the user state, whether or not later notifications
\* were delivered in the meantime; so a state is reached in which the latest
\* notification reported no session and an older lookup left a user present.
C5_StaleLookupApplied ==
    [][\A h \in handlers :
          (h.reply /= "pending" /\ h \notin handlers')
             => sUser' = fetchUserWithRole(h.uid, h.reply)]_vars

C5_Witness ==
    /\ notified >= 2
    /\ lastNote = NoSession
    /\ session = NoSession
    /\ handlers = {}
    /\ applied /= Null
    /\ applied.seq >= 1
    /\ applied.seq < notified
    /\ sUser /= Null

\* C6: single source of truth. After a setUser(u) or clearUser() call has
\* taken effect in one component, every other component that called the hook
\* and has finished loading, the layout in particular, holds the same user.
C6_SingleSourceOfTruth ==
    [][/\ (SetUserReturns /\ logged' = "none") =>
             \A g \in Holders : loadPc'[g] = "done" => user'[g] = user'["login"]
       /\ (ClearUserReturns /\ logged' = "none") =>
             \A g \in Holders : loadPc'[g] = "done" => user'[g] = user'["admin"]
      ]_vars

\* C7: role-lookup failure default. When the role lookup of a present session
\* failed (error result, thrown exception, no record), the user state written
\* is that session's user with role "user", and the handler ran to its end.
C7_RoleLookupFailureDefault ==
    (applied /= Null /\ applied.reply \in Failures) =>
        /\ sUser = [id |-> applied.sess, email |-> EmailOf(applied.sess),
                    role |-> "user"]
        /\ (variant = "firebase" \/ applied.seq = 0) => ~sLoading

C7_Witness ==
    /\ applied /= Null
    /\ applied.reply = "throw"
    /\ profiles[applied.sess] = "admin"
    /\ cleanSince = 0
    /\ sUser /= Null
    /\ sUser.role = "user"

\* C8: best-effort persistence. When a setUser(u) or clearUser() call returns,
\* also after a failed write or removal, nothing is surfaced to the caller and
\* the in-memory user is u, respectively absent.
C8_BestEffortPersistence ==
    [][/\ SetUserReturns => (alert' = "none" /\ user'["login"] = login.data)
       /\ ClearUserReturns => (alert' = "none" /\ user'["admin"] = Null)
      ]_vars

\* C9: persistence round trip. When loadUser() reads storage successfully after
\* a setUser(u) whose writes both succeeded, and storage was not written or
\* cleared since, the in-memory user equals u field for field.
C9_RoundTrip ==
    [][\A h \in Holders :
          (/\ loadPc[h] = "getItem"
           /\ loadPc'[h] = "done"
           /\ logged' = "none"
           /\ lastSet /= Null)
             => user'[h] = lastSet]_vars

C9_Witness ==
    /\ loadPc["login"] = "unmounted"
    /\ loadPc["layout"] = "done"
    /\ lastSet /= Null
    /\ lastSet.role = "admin"
    /\ user["layout"] = lastSet

Failed(reply) == reply \in Failures

\* this step applies the state update of a notification that repeats the one
\* applied last: delivered right after it, same session value, role store
\* unchanged since the first of the two was delivered
RepeatApplied ==
    /\ applied' /= applied
    /\ applied'.dup

C11_NoMerging ==
    [][sUser' /= Null =>
          /\ applied' /= Null
          /\ applied'.sess \in Uids
          /\ sUser' = [id |-> applied'.sess, email |-> EmailOf(applied'.sess),
                       role |-> getUserRole(applied'.reply)]
          /\ (sUser' /= sUser) =>
                 \E h \in handlers :
                    /\ h.reply /= "pending"
                    /\ h \notin handlers'
                    /\ h.uid = sUser'.id]_vars

\* both sessions were looked up and written, u2's first; user is u1's alone
C11_Witness ==
    /\ notified = 2
    /\ session = "u2"
    /\ handlers = {}
    /\ cleanSince = 0
    /\ profiles["u1"] = "user"
    /\ profiles["u2"] = "admin"
    /\ applied /= Null
    /\ applied.seq = 1
    /\ applied.sess = "u1"
    /\ sUser = [id |-> "u1", email |-> "e1", role |-> "user"]

\* C12: the loading flag is one-shot. In every build the flag of a hook
\* instance is true exactly as long as its initialisation (loadUser, initAuth,
\* the first auth-state notification handled to its end) has not finished,
\* and within one process lifetime no step takes it from false back to true.
C12_LoadingOneShot ==
    [][/\ \A h \in Holders : loading'[h] <=> (loadPc'[h] /= "done")
       /\ (variant = "supabase") => (sLoading' <=> (initPc' /= "done"))
       /\ (variant = "firebase") => (sLoading' <=> (applied' = Null))
       /\ ~Restart =>
             /\ \A h \in Holders : ~loading[h] => ~loading'[h]
             /\ ~sLoading => ~sLoading']_vars

\* loading is false and a later notification's lookup is in flight
C12_Witness ==
    /\ variant = "firebase"
    /\ ~sLoading
    /\ notified = 2
    /\ \E h \in handlers : h.seq = 2 /\ h.reply = "pending"

\* loadUser() of hook instance h ends in its catch in this step
LoadUserFails(h) ==
    /\ loadPc[h] = "getItem"
    /\ loadPc'[h] = "done"
    /\ logged' = "Error loading user data:"

\* initAuth() ends in its catch in this step
InitAuthFails ==
    /\ initPc = "getSession"
    /\ logged' = "Error fetching session:"

SignUpSettles ==
    /\ login.pc = "signUp"
    /\ login'.pc /= "signUp"
    /\ loadPc'["login"] /= "unmounted"

\* C14: duplicate sign-up. When a sign-up for an email that is already in the
\* users table settles, the mutation has thrown the duplicate-account error
\* and left the table as it was, an error is shown, and the client changes
\* neither the in-memory user nor AsyncStorage and does not navigate.
C14_DuplicateSignUp ==
    [][(SignUpSettles /\ ByEmail(db, login.email) /= {}) =>
          /\ signUp(db, login.email, login.password, login.tok).err
                = "User with this email already exists"
          /\ signUp(db, login.email, login.password, login.tok).db = db
          /\ db' = db
          /\ alert' /= "none"
          /\ user' = user
          /\ storage' = storage
          /\ nav' = "none"
          /\ login' = Idle]_vars

\* the duplicate-account error is shown for an email registered before
C14_Witness ==
    /\ alert = "User with this email already exists"
    /\ Len(db) = 1
    /\ db[1].email = "e1"
    /\ nav = "none"
    /\ login = Idle

\* C15: default role at account creation. A step that adds a row to the users
\* table adds it with role "user", and a sign-in for its email run right after
\* returns role "user"; the AuthUser the sign-up flow builds has role "user".
\* In the subscription builds a step that creates a profile creates it with
\* role "user", and a role lookup for that id run right after returns "user".
C15_DefaultRole ==
    [][/\ (Len(db') > Len(db)) =>
             LET id == Len(db')
             IN /\ id = Len(db) + 1
                /\ db'[id].role = "user"
                /\ signIn(db', db'[id].email, login.password).value.role = "user"
                /\ login'.data = AuthUser(id, login.email, "user", login.tok)
       /\ \A u \in Uids :
             (profiles[u] = "none" /\ profiles'[u] /= "none") =>
                /\ profiles'[u] = "user"
                /\ getUserRole(RoleStoreRead(profiles', u)) = "user"]_vars

\* a second account has just been created, the first one is an administrator
C15_Witness ==
    /\ login.pc = "w1"
    /\ login.isSignUp
    /\ Len(db) = 2
    /\ db[1].role = "admin"
    /\ login.data.id = 2
    /\ db[2].role = "user"

\* C16: signIn validates credentials. A sign-in call returns a profile only
\* when the users table holds an account with the email given whose sign-up
\* password is the password given.
C16_SignInValidatesCredentials ==
    [][(login.pc = "signIn" /\ login'.pc = "w1") =>
          \E i \in DOMAIN db :
             /\ db[i].email = login.email
             /\ creds[i] = login.password]_vars

\* the awaited signUp or signIn call of the login screen is rejected in this
\* step (the mutation threw, or the call failed)
AuthRejected ==
    /\ login.pc \in {"signUp", "signIn"}
    /\ login' = Idle
    /\ loadPc'["login"] /= "unmounted"

\* handleAuth issues its signUp or signIn call in this step
AuthAttempted ==
    /\ login.pc = "idle"
    /\ login'.pc \in {"signUp", "signIn"}

\* C17: authentication failure leaves state unchanged. The step in which a
\* sign-in or sign-up call is rejected shows an alert and changes neither the
\* users table nor any hook instance's user nor AsyncStorage, and requests no
\* navigation; issuing the call changed none of them either.
C17_AuthFailureLeavesState ==
    [][/\ AuthRejected =>
             /\ alert' /= "none"
             /\ nav' = "none"
             /\ db' = db
             /\ user' = user
             /\ storage' = storage
       /\ AuthAttempted => (db' = db /\ user' = user /\ storage' = storage)
      ]_vars

\* a sign-in for an unknown email was rejected while a session is stored
C17_Witness ==
    /\ alert = "Invalid email or password"
    /\ login = Idle
    /\ HasItem(storage, USER_STORAGE_KEY)
    /\ HasItem(storage, TOKEN_STORAGE_KEY)
    /\ user["login"] /= Null

\* C18: user input error. The step that shows the missing-field message
\* issues no call and generates no token, leaves the busy flag off and changes
\* neither user nor AsyncStorage nor the table; and no call is ever in flight
\* with an empty email or an empty password.
C18_InputErrorNoEffect ==
    [][/\ (alert' = "Please fill in all fields") =>
             /\ login' = login
             /\ ~login'.busy
             /\ tokCtr' = tokCtr
             /\ nav' = "none"
             /\ db' = db
             /\ user' = user
             /\ storage' = storage
       /\ (login'.pc /= "idle") =>
             (login'.email /= "" /\ login'.password /= "")]_vars

\* the message is shown while a session is held and stored
C18_Witness ==
    /\ alert = "Please fill in all fields"
    /\ login = Idle
    /\ user["login"] /= Null
    /\ HasItem(storage, TOKEN_STORAGE_KEY)

C20_GetTokenIdentifier ==
    [][/\ (tokenRead' /= NoCall /\ logged' = "none" /\ lastSet /= Null) =>
             tokenRead'.value = [token |-> lastSet.tokenIdentifier]
       /\ (tokenRead' /= NoCall /\ logged' /= "none") =>
             tokenRead'.value = Null
       /\ ClearUserReturns => getTokenIdentifier(storage', TRUE) = Null
      ]_vars

\* C21: promotion script outcome. A finished run that printed the success
\* message and exited with status zero made a setRole call that succeeded and
\* left the target's stored role "admin"; a run whose profile fetch or role
\* update failed exited with a non-zero status.
C21_PromotionOutcome ==
    (script.kind /= "none" /\ script.pc = "exited") =>
        /\ (script.out = "success" /\ script.exit = 0) =>
              /\ script.update = "ok"
              /\ HasProfile(profiles, script.target)
              /\ profiles[script.target] = "admin"
        /\ (script.fetch = "failed" \/ script.update = "failed") =>
              script.exit /= 0

\* C22: startup configuration failure is fatal. In every variant, once the
\* configuration module has been evaluated with a required endpoint URL or
\* public API key missing, initialization has halted and no backend client
\* constructor was called.
C22_StartupConfigFatal ==
    (boot.pc /= "start" /\ ~EnvComplete(variant, boot)) =>
        /\ boot.pc = "halted"
        /\ ~boot.called

\* C23: no cancellation. The listener is unsubscribed only by the teardown,
\* which leaves the lookups in flight alone; after the teardown no
\* notification is handled any more; and a lookup leaves the set of lookups
\* in flight only by completing, its completion writing the user state,
\* after the teardown as before it.
C23_NoCancellation ==
    [][/\ (subscribed' /= subscribed) =>
             (subscribed /\ ~subscribed' /\ handlers' = handlers)
       /\ ~subscribed =>
             (notified' = notified /\ lastNote' = lastNote /\ ~subscribed')
       /\ \A h \in handlers :
             h \notin handlers' =>
                \/ h.reply = "pending"
                   /\ \E r \in Failures \cup {"", "user", "admin"} :
                         [h EXCEPT !.reply = r] \in handlers'
                \/ h.reply /= "pending"
                   /\ sUser' = fetchUserWithRole(h.uid, h.reply)
      ]_vars

C23_Witness ==
    /\ ~subscribed
    /\ session = NoSession
    /\ handlers = {}
    /\ applied /= Null
    /\ applied.unsub
    /\ applied.seq >= 1
    /\ applied.sess /= NoSession
    /\ sUser /= Null
    /\ sUser.id = applied.sess
    /\ sUser.role = "admin"

\* C24: admin exposure requires a positive lookup. In the subscription
\* variants, whenever the admin screen is registered, the role lookup whose
\* result was applied last to the user state was made for the id of the user
\* held and the role store answered "admin"; after a failed, missing or empty
\* role read was applied the admin screen is not registered.
C24_AdminNeedsPositiveLookup ==
    /\ "(app)/admin" \in exposed =>
          /\ applied /= Null
          /\ applied.reply = "admin"
          /\ sUser /= Null
          /\ applied.sess = sUser.id
    /\ (applied /= Null /\ applied.reply \in Failures \cup {""}) =>
          "(app)/admin" \notin exposed

C24_Witness ==
    /\ "(app)/admin" \in exposed
    /\ applied /= Null
    /\ applied.reply = "admin"
    /\ applied.seq = 2
    /\ sUser.id = applied.sess
    /\ session = sUser.id
    /\ profiles[session] = "admin"

\* C25: role freshness at startup. When the layout's initialize() completes
\* with a restored session for user x, the role held in memory is the role
\* the users table holds for x at that moment; in particular the admin screen
\* is not registered for a user whose role in the table is not "admin".
C25_RoleFreshAtStartup ==
    [][(/\ loadPc["layout"] = "getItem"
        /\ loadPc'["layout"] = "done"
        /\ user'["layout"] /= Null)
          => /\ user'["layout"].role = db'[user'["layout"].id].role
             /\ ("(app)/admin" \in exposed' =>
                   db'[user'["layout"].id].role = "admin")
      ]_vars

\* no setUser or clearUser call is in flight
Quiescent == login.pc \notin {"w1", "w2"} /\ clearing = Clearing0

\* the user held by hook instance h and the persisted snapshot agree
MemoryMatchesStorage(h) ==
    /\ (user[h] /= Null) <=> HasItem(storage, USER_STORAGE_KEY)
    /\ user[h] /= Null => JsonParse(storage[USER_STORAGE_KEY]) = user[h]

\* C26: memory and storage agree at quiescence. When a setUser or clearUser
\* call returns and no other such call is in flight, the user held by the
\* hook instance that made the call is present exactly when the snapshot key
\* is persisted, and then equals the persisted snapshot.
C26_MemoryStorageAgree ==
    [][/\ (SetUserReturns /\ Quiescent') => MemoryMatchesStorage("login")'
       /\ (ClearUserReturns /\ Quiescent') => MemoryMatchesStorage("admin")'
      ]_vars

\* C27: persisted keys are paired. Whenever no setUser or clearUser call is in
\* flight, the snapshot key and the token key are both absent, or both
\* present with the token equal to the snapshot's tokenIdentifier.
C27_KeysPaired ==
    Quiescent =>
        \/ /\ ~HasItem(storage, USER_STORAGE_KEY)
           /\ ~HasItem(storage, TOKEN_STORAGE_KEY)
        \/ /\ HasItem(storage, USER_STORAGE_KEY)
           /\ HasItem(storage, TOKEN_STORAGE_KEY)
           /\ storage[TOKEN_STORAGE_KEY] =
                 JsonParse(storage[USER_STORAGE_KEY]).tokenIdentifier

\* C28: navigation follows state. The login screen requests the app group
\* only in a step in which its setUser call took effect (no storage failure,
\* the instance's user now the signed-in user), and the admin screen requests
\* the auth group only in a step in which its clearUser call took effect (no
\* storage failure, the instance's user now absent).
C28_NavigationFollowsState ==
    [][/\ nav' = "/(app)" =>
             (logged' = "none" /\ user'["login"] = login.data)
       /\ nav' = "/(auth)" =>
             (logged' = "none" /\ user'["admin"] = Null)
      ]_vars

\* C29: email uniqueness. After any sequence of signUp, signIn and
\* setUserRole mutations the users table holds no two records with the same
\* email.
C29_EmailUnique ==
    \A i, j \in DOMAIN db : db[i].email = db[j].email => i = j

C29_Witness ==
    /\ Len(db) = 1
    /\ tokCtr = 2
    /\ alert = "User with this email already exists"
    /\ db[1].role = "admin"

\* the loading flag the route guard of the layout waits on
LayoutLoading == IF variant = "convex" THEN loading["layout"] ELSE sLoading

\* C30: loading eventually ends. In every variant, if every awaited external
\* call eventually settles, then whenever the layout's loading flag is true
\* it later becomes false.
C30_LoadingEnds == LayoutLoading ~> ~LayoutLoading

C30_Witness ==
    /\ variant = "supabase"
    /\ ~sLoading
    /\ applied /= Null
    /\ applied.seq = 0
    /\ Failed(applied.reply)
    /\ notified = 0

====
